---- MODULE Spec2Model ----
(***************************************************************************)
(* A model of `unfold` (src/src/main.rs): symbolic links given as          *)
(* arguments are replaced by copies of their targets, with a revert of the *)
(* link when a step of the replacement fails.                              *)
(*                                                                         *)
(* The filesystem is a function from absolute paths (sequences of names    *)
(* below the working directory <<>>) to nodes.  Every filesystem primitive *)
(* the program calls is one step of the model and may fail.                *)
(***************************************************************************)
EXTENDS Integers, Sequences, FiniteSets, TLC

\* ------------------------------------------------------------------ bounds

MaxChain == 3       \* longest chain of links l_N -> ... -> l1 -> end
MaxArgs == 2        \* most SYMLINK arguments of one invocation
MaxList == 3        \* most SYMLINK arguments where only the list is varied
MaxLayers == 3      \* largest in-range NUM tried for --num-layers
SymloopMax == 6     \* links the kernel follows before it answers ELOOP

U8Max == 255        \* num_layers: u8

\* ------------------------------------------------------------------ paths

LinkNames == <<"l1", "l2", "l3", "l4", "l5">>
TopNames == {"f", "d", "s", "m"} \cup {LinkNames[i] : i \in 1..(MaxChain + 1)}
ChildNames == {"x", "y", "z"}

\* Every absolute path the model's filesystem has a slot for.
Paths ==
    {<<a>> : a \in TopNames} \cup {<<a, b>> : a \in TopNames \ {"f", "s", "m"}, b \in ChildNames}
        \cup {<<"d", "z", b>> : b \in ChildNames}

\* std::env::current_dir(): the working directory of the invocation.
Cwd == <<>>

\* A PathBuf as the program holds it: absolute or relative, and its names.
Abs(p) == [abs |-> TRUE, path |-> p]
Rel(p) == [abs |-> FALSE, path |-> p]

\* Path::join: an absolute operand replaces the base.
Join(base, pb) == IF pb.abs THEN pb.path ELSE base \o pb.path

\* Path::parent of an absolute path.
Parent(p) == SubSeq(p, 1, Len(p) - 1)

\* Path::is_absolute
IsAbsolute(pb) == pb.abs

\* ------------------------------------------------------------------ nodes

NoVal == Rel(<<>>)
None == [kind |-> "none", data |-> "", val |-> NoVal]
File(c) == [kind |-> "file", data |-> c, val |-> NoVal]
Dir == [kind |-> "dir", data |-> "", val |-> NoVal]
Special == [kind |-> "special", data |-> "", val |-> NoVal]
Link(v) == [kind |-> "link", data |-> "", val |-> v]

NodeAt(f, p) == IF p \in DOMAIN f THEN f[p] ELSE None

\* The outcome of a path lookup: where it ended, or the errno.
Found(p) == [st |-> "ok", path |-> p]
Errno(e) == [st |-> e, path |-> <<>>]

RECURSIVE Follow(_, _, _)
RECURSIVE Phys(_, _, _)

\* lstat-style lookup: every component but the last is followed.
Phys(f, p, fuel) ==
    IF Len(p) <= 1 THEN Found(p)
    ELSE LET d == Follow(f, Parent(p), fuel) IN
         IF d.st # "ok" THEN d
         ELSE IF NodeAt(f, d.path).kind # "dir" THEN Errno("ENOTDIR")
         ELSE Found(d.path \o <<p[Len(p)]>>)

\* stat-style lookup: the last component is followed too.
Follow(f, p, fuel) ==
    LET q == Phys(f, p, fuel) IN
    IF q.st # "ok" THEN q
    ELSE IF Len(q.path) = 0 THEN q
    ELSE LET n == NodeAt(f, q.path) IN
         IF n.kind = "none" THEN Errno("ENOENT")
         ELSE IF n.kind # "link" THEN q
         ELSE IF fuel = 0 THEN Errno("ELOOP")
         ELSE Follow(f, Join(Parent(q.path), n.val), fuel - 1)

Lstat(f, p) == Phys(f, p, SymloopMax)
Stat(f, p) == Follow(f, p, SymloopMax)

\* The node a path names without following its last component.
LNode(f, p) == LET q == Lstat(f, p) IN IF q.st = "ok" THEN NodeAt(f, q.path) ELSE None
\* The node a path names when every link is followed; the root is a directory.
SNode(f, p) ==
    LET q == Stat(f, p) IN
    IF q.st # "ok" THEN None ELSE IF Len(q.path) = 0 THEN Dir ELSE NodeAt(f, q.path)

\* Path::is_symlink, Path::is_file, Path::is_dir: false on any error.
IsSymlink(f, p) == LNode(f, p).kind = "link"
IsFile(f, p) == SNode(f, p).kind = "file"
IsDir(f, p) == SNode(f, p).kind = "dir"

\* Path::try_exists: Ok(true), Ok(false) when nothing is there, else Err.
TryExists(f, p) ==
    LET q == Stat(f, p) IN
    IF q.st = "ok" THEN "true" ELSE IF q.st = "ENOENT" THEN "false" ELSE "err"

\* Path::read_link of a path that is a symlink.
ReadLink(f, p) == LNode(f, p).val

\* Path::canonicalize
Canonicalize(f, p) == Stat(f, p)

\* (a listing that leaves the subdirectories out)
ReadDirNoDirs(f, p) ==
    LET q == Stat(f, p) IN
    {c \in ChildNames : NodeAt(f, q.path \o <<c>>).kind \notin {"none", "dir"}}

\* The names listed by read_dir of a directory path.
ReadDir(f, p) ==
    LET q == Stat(f, p) IN
    {c \in ChildNames : NodeAt(f, q.path \o <<c>>).kind # "none"}

\* ------------------------------------------------------------------ primitives

\* The slot a path's last component lives in, once its directory is resolved.
Slot(f, p) == Lstat(f, p).path

\* A path whose directory resolves to a slot of the model.
Reachable(f, p) == Lstat(f, p).st = "ok" /\ Slot(f, p) \in DOMAIN f

Put(f, p, n) == [f EXCEPT ![Slot(f, p)] = n]

IsPrefix(p, r) == Len(r) >= Len(p) /\ SubSeq(r, 1, Len(p)) = p

\* (an unlink that removes what the link points to)
UnlinkFollowing(f, p) ==
    IF Stat(f, p).st = "ok" /\ Stat(f, p).path \in DOMAIN f
    THEN [f EXCEPT ![Stat(f, p).path] = None]
    ELSE Put(f, p, None)

\* unlink(2), behind remove_symlink_auto/_file/_dir and std::fs::remove_file:
\* removes the name itself, never what a link points to; refuses a directory.
CanUnlink(f, p) == Reachable(f, p) /\ LNode(f, p).kind \in {"file", "link", "special"}
Unlink(f, p) == Put(f, p, None)

\* symlink(2), behind symlink_auto: stores the value as given, needs a free name.
CanSymlink(f, p) == Reachable(f, p) /\ LNode(f, p).kind = "none"
Symlink(f, v, p) == Put(f, p, Link(v))

\* std::fs::copy: the content of the file `from` names, written at `to`.
CanCopy(f, from, to) ==
    IsFile(f, from) /\ Reachable(f, to) /\ LNode(f, to).kind \in {"none", "file"}
\* (a copy that creates the destination and writes no byte of the source)
CopyNoBytes(f, from, to) == Put(f, to, File(""))
Copy(f, from, to) == Put(f, to, File(SNode(f, from).data))
\* A copy that failed after it had created the destination.
Partial == "partial"
CopyPartial(f, to) == Put(f, to, File(Partial))

\* std::fs::create_dir
CanCreateDir(f, p) == Reachable(f, p) /\ LNode(f, p).kind = "none"
CreateDir(f, p) == Put(f, p, Dir)

\* (a recursive removal that follows a symlink into the directory it names)
RemoveDirAllFollowing(f, p) ==
    [r \in DOMAIN f |->
        IF IsPrefix(Stat(f, p).path, r) \/ (LNode(f, p).kind = "dir" /\ IsPrefix(Slot(f, p), r))
        THEN None ELSE f[r]]

\* std::fs::remove_dir_all: a symlink is removed itself and not followed; a
\* directory goes with everything beneath it.
CanRemoveDirAll(f, p) == Reachable(f, p) /\ LNode(f, p).kind \in {"dir", "link"}
RemoveDirAll(f, p) ==
    IF LNode(f, p).kind = "link" THEN Unlink(f, p)
    ELSE [r \in DOMAIN f |-> IF IsPrefix(Slot(f, p), r) THEN None ELSE f[r]]

\* ------------------------------------------------------------------ pure code

\* try_absolute_path, when current_dir() answers.
TryAbsolutePath(pb) == IF IsAbsolute(pb) THEN pb.path ELSE Join(Cwd, pb)

\* (a validation that forgets the broken link)
ValidateSymlinkNoBroken(f, symlink) ==
    IF ~IsSymlink(f, symlink) THEN "NotASymlink" ELSE "ok"

\* (a validation that asks only whether the path exists)
ValidateSymlinkAnyNode(f, symlink) ==
    IF TryExists(f, symlink) = "err" THEN "Unreachable"
    ELSE IF TryExists(f, symlink) = "false" THEN "BrokenSymlink"
    ELSE "ok"

\* validate_symlink: "ok" or the error it bails with.
ValidateSymlink(f, symlink) ==
    IF ~IsSymlink(f, symlink) THEN "NotASymlink"
    ELSE IF TryExists(f, symlink) = "err" THEN "Unreachable"
    ELSE IF TryExists(f, symlink) = "false" THEN "BrokenSymlink"
    ELSE "ok"

\* (a loop that runs one turn short)
RECURSIVE FollowLayersShort(_, _, _)
FollowLayersShort(f, target, n) ==
    IF n <= 1 THEN target
    ELSE IF IsSymlink(f, target)
         THEN FollowLayersShort(f, Join(Parent(target), ReadLink(f, target)), n - 1)
         ELSE target

\* The loop of try_find_target: up to n links are read, each value joined
\* with the directory of the link it was read from.
RECURSIVE FollowLayers(_, _, _)
FollowLayers(f, target, n) ==
    IF n = 0 THEN target
    ELSE IF IsSymlink(f, target)
         THEN FollowLayers(f, Join(Parent(target), ReadLink(f, target)), n - 1)
         ELSE target

\* try_find_target, when no read fails for a reason outside the model.
TryFindTarget(f, symlink, num_layers, follow_to_source) ==
    IF follow_to_source THEN Canonicalize(f, symlink)
    ELSE Found(FollowLayers(f, symlink, num_layers))

\* The dispatch of try_unfold on the resolved target.
TargetKind(f, target) ==
    IF IsSymlink(f, target) THEN "symlink"
    ELSE IF IsFile(f, target) THEN "file"
    ELSE IF IsDir(f, target) THEN "dir"
    ELSE "other"

\* ------------------------------------------------------------------ state

VARIABLES
    argv,           \* the command line: [f, v, n, symlinks], n = <<>> when -n is absent
    fs0,            \* the filesystem the invocation started on
    fs,             \* the filesystem now
    fsArg,          \* the filesystem when the current argument was taken up
    pc,             \* where the program is
    args,           \* the parsed Args
    i,              \* index of the current argument in args.symlinks
    symlink,        \* main: the absolute path of the current argument
    target,         \* main: the one-layer target kept for the revert
    unfold_target,  \* try_unfold: the target under the bound in effect
    children,       \* try_dir_unfold: the entries of the listing not linked yet
    cause,          \* the error try_unfold returned, while the revert runs
    reverted,       \* arguments (by index) a revert was attempted for
    revert_err,     \* the error try_revert returned
    err,            \* the error main returned: [orig, revert, at]
    status,         \* "running", "ok" or "fail"
    stdout,         \* the lines printed
    fault,          \* history: a primitive failed for a reason outside the model
    unfolded,       \* history: one record per argument unfolded with success
    reads,          \* history: the read_link calls of try_find_target run on its own
    past            \* history: the invocations run before this one, on the same files

vars == <<argv, fs0, fs, fsArg, pc, args, i, symlink, target, unfold_target,
          children, cause, reverted, revert_err, err, status, stdout, fault, unfolded, reads,
          past>>

NoPath == <<>>
NoErr == [orig |-> "none", revert |-> "none", at |-> 0]
NoArgs == [symlinks |-> <<>>, num_layers |-> 1, follow_to_source |-> FALSE]

\* ------------------------------------------------------------------ initial states

Contents == {"c1", "c2"}

\* Where the last link of the chain points.
Ends == {"f", "d", "s", "m", "loop", "dy"}
EndPath(end, N) ==
    CASE end = "f" -> <<"f">>
      [] end = "d" -> <<"d">>
      [] end = "s" -> <<"s">>
      [] end = "m" -> <<"m">>
      [] end = "loop" -> <<LinkNames[N]>>
      [] OTHER -> <<"d", "y">>

Value(rel, p) == IF rel THEN Rel(p) ELSE Abs(p)

\* A file f, a directory d holding a file x, a relative link y -> x and an
\* empty directory z, a special node s, nothing at m, and the chain
\* l_N -> ... -> l1 -> end whose links store relative or absolute values.
InitialFs(N, rel, end) ==
    [p \in Paths |->
        CASE p = <<"f">> -> File("c1")
          [] p = <<"d">> -> Dir
          [] p = <<"d", "x">> -> File("c2")
          [] p = <<"d", "y">> -> Link(Rel(<<"x">>))
          [] p = <<"d", "z">> -> Dir
          [] p = <<"s">> -> Special
          [] p = <<LinkNames[1]>> -> Link(Value(rel, EndPath(end, N)))
          [] \E k \in 2..N : p = <<LinkNames[k]>> ->
                Link(Value(rel, <<LinkNames[(CHOOSE k \in 2..N : p = <<LinkNames[k]>>) - 1]>>))
          [] OTHER -> None]

\* The paths an argument may name: the head of the chain and entries beneath
\* it (relative to the working directory), and an absolute path with nothing
\* at it.
ArgChoices(N) ==
    {Rel(<<LinkNames[N]>>), Abs(<<"m">>), Rel(<<LinkNames[N], "x">>), Rel(<<LinkNames[N], "y">>)}

\* -n absent (NUM = 1 by default), NUM = 0, 2, .., and a NUM beyond u8.
NumChoices == {<<>>, <<0>>} \cup {<<n>> : n \in 2..MaxLayers} \cup {<<U8Max + 1>>}

\* The invocations that start on the chains ending at one of `ends`, with -n
\* drawn from `nums`, -f and -v (an option Args does not declare) from `flags`
\* and at most `most` arguments.
Start(ends, nums, flags, most) ==
    \E N \in 1..MaxChain, rel \in BOOLEAN, end \in ends :
        /\ fs0 = InitialFs(N, rel, end)
        /\ \E f \in flags, v \in flags, n \in nums, len \in 0..most :
              \E l \in [1..len -> ArgChoices(N)] :
                 argv = [f |-> f, v |-> v, n |-> n, symlinks |-> l]

Rest ==
    /\ fs = fs0
    /\ fsArg = fs0
    /\ pc = "parse"
    /\ args = NoArgs
    /\ i = 0
    /\ symlink = NoPath
    /\ target = NoPath
    /\ unfold_target = NoPath
    /\ children = {}
    /\ cause = "none"
    /\ reverted = {}
    /\ revert_err = "none"
    /\ err = NoErr
    /\ status = "running"
    /\ stdout = <<>>
    /\ fault = FALSE
    /\ unfolded = <<>>
    /\ reads = 0
    /\ past = <<>>

Init == Start(Ends, NumChoices, BOOLEAN, MaxArgs) /\ Rest

\* Longer argument lists, on the chains that end at the file or the directory.
InitList == Start({"f", "d"}, {<<>>, <<2>>}, {FALSE}, MaxList) /\ Rest

\* The same, but d/z is a link to the directory d it is an entry of, stored
\* as "." or as the absolute path of d.
SelfFs(N, rel, end) ==
    [InitialFs(N, rel, end) EXCEPT ![<<"d", "z">>] = Link(IF rel THEN Rel(<<>>) ELSE Abs(<<"d">>))]

\* Invocations on that link and on the head of the chain.
InitSelf ==
    /\ \E N \in 1..MaxChain, rel \in BOOLEAN, end \in {"f", "d"} :
          /\ fs0 = SelfFs(N, rel, end)
          /\ \E f \in BOOLEAN, n \in {<<>>, <<2>>}, len \in 1..MaxArgs :
                \E l \in [1..len -> {Rel(<<"d", "z">>), Rel(<<LinkNames[N]>>)}] :
                   argv = [f |-> f, v |-> FALSE, n |-> n, symlinks |-> l]
    /\ Rest

\* ------------------------------------------------------------------ main

input == <<argv, fs0, reads, past>>
locals == <<symlink, target, unfold_target, children>>

\* main returns Err(e): the process ends with a failure status.
Fail(orig, revert) ==
    /\ err' = [orig |-> orig, revert |-> revert, at |-> i]
    /\ status' = "fail"
    /\ pc' = "done"

\* (an Args without conflicts_with)
ArgvValidNoConflict ==
    /\ Len(argv.symlinks) >= 1
    /\ ~argv.v
    /\ argv.n # <<>> => argv.n[1] \in 0..U8Max

\* What clap accepts of the command line: at least one SYMLINK, no option but
\* those of Args, not both of -f and -n, and a NUM that fits u8.
ArgvValid ==
    /\ Len(argv.symlinks) >= 1
    /\ ~argv.v
    /\ ~(argv.f /\ argv.n # <<>>)
    /\ argv.n # <<>> => argv.n[1] \in 0..U8Max

\* Args::try_parse and its map_err.
Parse ==
    /\ pc = "parse"
    /\ IF ArgvValid
       THEN /\ args' = [symlinks |-> argv.symlinks,
                        num_layers |-> IF argv.n = <<>> THEN 1 ELSE argv.n[1],
                        follow_to_source |-> argv.f]
            /\ pc' = "main"
            /\ UNCHANGED <<err, status>>
       ELSE /\ Fail("Usage", "none")
            /\ UNCHANGED args
    /\ UNCHANGED <<input, fs, fsArg, i, locals, cause, reverted, revert_err, stdout, unfolded>>
    /\ UNCHANGED fault

\* (a main that has no early return for NUM = 0)
NumLayersZeroMissing ==
    /\ pc = "main"
    /\ i' = 1
    /\ pc' = "next"
    /\ UNCHANGED <<input, fs, fsArg, args, locals, cause, reverted, revert_err, err, unfolded,
                   stdout, status, fault>>

\* if args.num_layers == 0 { println!("Did nothing. :/"); return Ok(()) }
NumLayersZero ==
    /\ pc = "main"
    /\ IF args.num_layers = 0
       THEN /\ stdout' = Append(stdout, <<"Did nothing. :/">>)
            /\ status' = "ok"
            /\ pc' = "done"
            /\ UNCHANGED i
       ELSE /\ i' = 1
            /\ pc' = "next"
            /\ UNCHANGED <<stdout, status>>
    /\ UNCHANGED <<input, fs, fsArg, args, locals, cause, reverted, revert_err, err, unfolded>>
    /\ UNCHANGED fault

\* for symlink in args.symlinks { let symlink = &try_absolute_path(&symlink)?; ... } Ok(())
NextArg ==
    /\ pc = "next"
    /\ IF i > Len(args.symlinks)
       THEN /\ status' = "ok"
            /\ pc' = "done"
            /\ UNCHANGED <<symlink, fsArg>>
       ELSE /\ symlink' = TryAbsolutePath(args.symlinks[i])
            /\ fsArg' = fs
            /\ pc' = "validate"
            /\ UNCHANGED status
    /\ UNCHANGED <<input, fs, args, i, target, unfold_target, children, cause, reverted,
                   revert_err, err, stdout, unfolded>>
    /\ UNCHANGED fault

\* try_absolute_path: current_dir() fails for a relative argument.
CwdUnreachable ==
    /\ pc = "next"
    /\ i <= Len(args.symlinks)
    /\ ~IsAbsolute(args.symlinks[i])
    /\ Fail("Cwd", "none")
    /\ UNCHANGED <<input, fs, fsArg, args, i, locals, cause, reverted, revert_err, stdout,
                   unfolded>>
    /\ fault' = TRUE

\* (a main that validates every argument on the filesystem it started on)
ValidateAtStart ==
    /\ pc = "validate"
    /\ IF ValidateSymlink(fs0, symlink) = "ok"
       THEN /\ pc' = "immediate"
            /\ UNCHANGED <<err, status>>
       ELSE Fail(ValidateSymlink(fs0, symlink), "none")
    /\ UNCHANGED <<input, fs, fsArg, args, i, locals, cause, reverted, revert_err, stdout,
                   unfolded, fault>>

\* validate_symlink(symlink)?
Validate ==
    /\ pc = "validate"
    /\ IF ValidateSymlink(fs, symlink) = "ok"
       THEN /\ pc' = "immediate"
            /\ UNCHANGED <<err, status>>
       ELSE Fail(ValidateSymlink(fs, symlink), "none")
    /\ UNCHANGED <<input, fs, fsArg, args, i, locals, cause, reverted, revert_err, stdout,
                   unfolded>>
    /\ UNCHANGED fault

\* validate_symlink: try_exists fails on a path that is a symlink.
ValidateUnreachable ==
    /\ pc = "validate"
    /\ IsSymlink(fs, symlink)
    /\ Fail("Unreachable", "none")
    /\ UNCHANGED <<input, fs, fsArg, args, i, locals, cause, reverted, revert_err, stdout,
                   unfolded>>
    /\ fault' = TRUE

\* let target = &try_find_target(symlink, 1, false)?;
FindImmediate ==
    /\ pc = "immediate"
    /\ target' = TryFindTarget(fs, symlink, 1, FALSE).path
    /\ pc' = "find"
    /\ UNCHANGED <<input, fs, fsArg, args, i, symlink, unfold_target, children, cause,
                   reverted, revert_err, err, status, stdout, unfolded>>
    /\ UNCHANGED fault

\* (a main that runs the revert when its own try_find_target fails)
FindImmediateFailReverting ==
    /\ pc = "immediate"
    /\ cause' = "LinkRead"
    /\ pc' = "revert"
    /\ UNCHANGED <<input, fs, fsArg, args, i, locals, reverted, revert_err, err, status,
                   stdout, unfolded>>
    /\ fault' = TRUE

\* The read_link of that call fails: the error leaves main without a revert.
FindImmediateFail ==
    /\ pc = "immediate"
    /\ Fail("LinkRead", "none")
    /\ UNCHANGED <<input, fs, fsArg, args, i, locals, cause, reverted, revert_err, stdout,
                   unfolded>>
    /\ fault' = TRUE

\* ------------------------------------------------------------------ try_unfold

\* try_unfold returns Err(c): main's or_else runs try_revert.
Raise(c) ==
    /\ cause' = c
    /\ pc' = "revert"

\* The steps of try_unfold leave these alone.
outer == <<input, fsArg, args, i, symlink, target, reverted, revert_err, err, status,
           stdout, unfolded>>

\* let target = &try_find_target(symlink, num_layers, follow_to_source)?;
UnfoldFindTarget ==
    /\ pc = "find"
    /\ LET r == TryFindTarget(fs, symlink, args.num_layers, args.follow_to_source) IN
       IF r.st = "ok"
       THEN /\ unfold_target' = r.path
            /\ pc' = "dispatch"
            /\ UNCHANGED cause
       ELSE /\ Raise("Resolve")
            /\ UNCHANGED unfold_target
    /\ UNCHANGED <<outer, fs, children>>
    /\ UNCHANGED fault

\* A read_link or the canonicalize of that call fails.
UnfoldFindTargetFail ==
    /\ pc = "find"
    /\ Raise("Resolve")
    /\ UNCHANGED <<outer, fs, unfold_target, children>>
    /\ fault' = TRUE

\* (a try_unfold that removes the link before it looks at the target)
DispatchRemovingFirst ==
    /\ pc = "dispatch"
    /\ LET k == TargetKind(fs, unfold_target) IN
       IF k = "other"
       THEN /\ fs' = Unlink(fs, symlink)
            /\ cause' = "Unfoldable"
            /\ pc' = "revert"
       ELSE /\ pc' = (CASE k = "symlink" -> "s_unlink"
                        [] k = "file" -> "f_unlink"
                        [] OTHER -> "d_unlink")
            /\ UNCHANGED <<fs, cause>>
    /\ UNCHANGED <<input, fsArg, args, i, symlink, target, reverted, revert_err, err, status,
                   stdout, unfolded, unfold_target, children, fault>>

\* if target.is_symlink() .. else if target.is_file() .. else if target.is_dir() .. else bail!
Dispatch ==
    /\ pc = "dispatch"
    /\ LET k == TargetKind(fs, unfold_target) IN
       IF k = "other"
       THEN Raise("Unfoldable")
       ELSE /\ pc' = (CASE k = "symlink" -> "s_unlink"
                        [] k = "file" -> "f_unlink"
                        [] OTHER -> "d_unlink")
            /\ UNCHANGED cause
    /\ UNCHANGED <<outer, fs, unfold_target, children>>
    /\ UNCHANGED fault

AfterUnlink(at) ==
    CASE at = "s_unlink" -> "s_link" [] at = "f_unlink" -> "f_copy" [] OTHER -> "d_mkdir"

\* remove_symlink_auto / remove_symlink_file / remove_symlink_dir (symlink)
RemoveSymlink ==
    /\ pc \in {"s_unlink", "f_unlink", "d_unlink"}
    /\ IF CanUnlink(fs, symlink)
       THEN /\ fs' = Unlink(fs, symlink)
            /\ pc' = AfterUnlink(pc)
            /\ UNCHANGED cause
       ELSE /\ Raise("Unlink")
            /\ UNCHANGED fs
    /\ UNCHANGED <<outer, unfold_target, children>>
    /\ UNCHANGED fault

RemoveSymlinkFail ==
    /\ pc \in {"s_unlink", "f_unlink", "d_unlink"}
    /\ Raise("Unlink")
    /\ UNCHANGED <<outer, fs, unfold_target, children>>
    /\ fault' = TRUE

\* (a link unfold that links to the resolved target itself)
SymlinkUnfoldToTarget ==
    /\ pc = "s_link"
    /\ CanSymlink(fs, symlink)
    /\ fs' = Symlink(fs, Abs(unfold_target), symlink)
    /\ pc' = "print"
    /\ UNCHANGED <<outer, unfold_target, children, cause, fault>>

\* (a link unfold that links to the source of the chain)
SymlinkUnfoldDeep ==
    /\ pc = "s_link"
    /\ CanSymlink(fs, symlink)
    /\ fs' = Symlink(fs, Abs(Stat(fs, unfold_target).path), symlink)
    /\ pc' = "print"
    /\ UNCHANGED <<outer, unfold_target, children, cause, fault>>

\* (a link unfold that stores the value of the target as it was read)
SymlinkUnfoldRawValue ==
    /\ pc = "s_link"
    /\ CanSymlink(fs, symlink)
    /\ fs' = Symlink(fs, ReadLink(fs, unfold_target), symlink)
    /\ pc' = "print"
    /\ UNCHANGED <<outer, unfold_target, children, cause, fault>>

\* try_symlink_unfold: symlink_auto(try_find_target(target, 1, false)?, symlink)
SymlinkUnfold ==
    /\ pc = "s_link"
    /\ IF CanSymlink(fs, symlink)
       THEN /\ fs' = Symlink(fs, Abs(TryFindTarget(fs, unfold_target, 1, FALSE).path), symlink)
            /\ pc' = "print"
            /\ UNCHANGED cause
       ELSE /\ Raise("CopyLink")
            /\ UNCHANGED fs
    /\ UNCHANGED <<outer, unfold_target, children>>
    /\ UNCHANGED fault

\* The read_link of the target fails, or the symlink call does.
SymlinkUnfoldFail ==
    /\ pc = "s_link"
    /\ \E c \in {"LinkRead", "CopyLink"} : Raise(c)
    /\ UNCHANGED <<outer, fs, unfold_target, children>>
    /\ fault' = TRUE

\* try_file_unfold: std::fs::copy(target, symlink)
FileCopy ==
    /\ pc = "f_copy"
    /\ IF CanCopy(fs, unfold_target, symlink)
       THEN /\ fs' = Copy(fs, unfold_target, symlink)
            /\ pc' = "print"
            /\ UNCHANGED cause
       ELSE /\ Raise("CopyFile")
            /\ UNCHANGED fs
    /\ UNCHANGED <<outer, unfold_target, children>>
    /\ UNCHANGED fault

\* The copy fails before it created the file, or part-way through.
FileCopyFail ==
    /\ pc = "f_copy"
    /\ \/ UNCHANGED fs
       \/ /\ CanSymlink(fs, symlink)
          /\ fs' = CopyPartial(fs, symlink)
    /\ Raise("CopyFile")
    /\ UNCHANGED <<outer, unfold_target, children>>
    /\ fault' = TRUE

\* try_dir_unfold: std::fs::create_dir(symlink_dir)
DirCreate ==
    /\ pc = "d_mkdir"
    /\ IF CanCreateDir(fs, symlink)
       THEN /\ fs' = CreateDir(fs, symlink)
            /\ pc' = "d_list"
            /\ UNCHANGED cause
       ELSE /\ Raise("CreateDir")
            /\ UNCHANGED fs
    /\ UNCHANGED <<outer, unfold_target, children>>
    /\ UNCHANGED fault

DirCreateFail ==
    /\ pc = "d_mkdir"
    /\ Raise("CreateDir")
    /\ UNCHANGED <<outer, fs, unfold_target, children>>
    /\ fault' = TRUE

\* try_dir_unfold: let children = target_dir.read_dir()?
DirList ==
    /\ pc = "d_list"
    /\ IF IsDir(fs, unfold_target)
       THEN /\ children' = ReadDir(fs, unfold_target)
            /\ pc' = IF ReadDir(fs, unfold_target) = {} THEN "print" ELSE "d_child"
            /\ UNCHANGED cause
       ELSE /\ Raise("ReadDir")
            /\ UNCHANGED children
    /\ UNCHANGED <<outer, fs, unfold_target>>
    /\ UNCHANGED fault

DirListFail ==
    /\ pc = "d_list"
    /\ Raise("ReadDir")
    /\ UNCHANGED <<outer, fs, unfold_target, children>>
    /\ fault' = TRUE

\* try_dir_unfold: one turn of `for child in children`, in the listing's order
\* (any): symlink_auto(target_dir/name, symlink_dir/name)
DirChild ==
    /\ pc = "d_child"
    /\ \E c \in children :
          IF CanSymlink(fs, symlink \o <<c>>)
          THEN /\ fs' = Symlink(fs, Abs(unfold_target \o <<c>>), symlink \o <<c>>)
               /\ children' = children \ {c}
               /\ pc' = IF children = {c} THEN "print" ELSE "d_child"
               /\ UNCHANGED cause
          ELSE /\ Raise("SymlinkChild")
               /\ UNCHANGED <<fs, children>>
    /\ UNCHANGED <<outer, unfold_target>>
    /\ UNCHANGED fault

\* The entry cannot be read (child?), or the symlink call fails.
DirChildFail ==
    /\ pc = "d_child"
    /\ \E c \in {"DirEntry", "SymlinkChild"} : Raise(c)
    /\ UNCHANGED <<outer, fs, unfold_target, children>>
    /\ fault' = TRUE

\* (a success line that names main's one-layer target)
SucceedNamingImmediate ==
    /\ pc = "print"
    /\ stdout' = Append(stdout, <<"Successfully unfolded", symlink, target>>)
    /\ unfolded' = Append(unfolded, [at |-> i, symlink |-> symlink, target |-> unfold_target,
                                     after |-> fs])
    /\ i' = i + 1
    /\ pc' = "next"
    /\ UNCHANGED <<input, fs, fsArg, args, locals, cause, reverted, revert_err, err, status,
                   fault>>

\* println!("Successfully unfolded {symlink} targeting {target}"); Ok(())
\* and main's loop goes on to the next argument.
Succeed ==
    /\ pc = "print"
    /\ stdout' = Append(stdout, <<"Successfully unfolded", symlink, unfold_target>>)
    /\ unfolded' = Append(unfolded, [at |-> i, symlink |-> symlink, target |-> unfold_target,
                                     after |-> fs])
    /\ i' = i + 1
    /\ pc' = "next"
    /\ UNCHANGED <<input, fs, fsArg, args, locals, cause, reverted, revert_err, err, status>>
    /\ UNCHANGED fault

\* ------------------------------------------------------------------ try_revert

inner == <<input, fsArg, args, i, locals, cause, err, status, stdout, unfolded>>

\* let exists = symlink.try_exists()?;
RevertExists ==
    /\ pc = "revert"
    /\ reverted' = reverted \cup {i}
    /\ IF TryExists(fs, symlink) = "err"
       THEN /\ revert_err' = "exists"
            /\ pc' = "report"
       ELSE /\ pc' = "revert_rm"
            /\ UNCHANGED revert_err
    /\ UNCHANGED <<inner, fs>>
    /\ UNCHANGED fault

RevertExistsFail ==
    /\ pc = "revert"
    /\ reverted' = reverted \cup {i}
    /\ revert_err' = "exists:io"
    /\ pc' = "report"
    /\ UNCHANGED <<inner, fs>>
    /\ fault' = TRUE

\* (a revert that removes a file and forgets the directory)
RevertRemovesFileOnly(f, p) ==
    IF TryExists(f, p) = "true" /\ IsFile(f, p) THEN "file" ELSE "nothing"

\* What try_revert removes: "file", "dir", or "nothing".
RevertRemoves(f, p) ==
    IF TryExists(f, p) = "true" /\ IsFile(f, p) THEN "file"
    ELSE IF TryExists(f, p) = "true" /\ IsDir(f, p) THEN "dir"
    ELSE "nothing"

\* if exists && symlink.is_file() { remove_file } else if exists && symlink.is_dir()
\* { remove_dir_all }
RevertRemove ==
    /\ pc = "revert_rm"
    /\ LET r == RevertRemoves(fs, symlink) IN
       CASE r = "file" ->
              IF CanUnlink(fs, symlink)
              THEN fs' = Unlink(fs, symlink) /\ pc' = "revert_ln" /\ UNCHANGED revert_err
              ELSE revert_err' = "remove" /\ pc' = "report" /\ UNCHANGED fs
         [] r = "dir" ->
              IF CanRemoveDirAll(fs, symlink)
              THEN fs' = RemoveDirAll(fs, symlink) /\ pc' = "revert_ln" /\ UNCHANGED revert_err
              ELSE revert_err' = "remove" /\ pc' = "report" /\ UNCHANGED fs
         [] OTHER -> pc' = "revert_ln" /\ UNCHANGED <<fs, revert_err>>
    /\ UNCHANGED <<inner, reverted>>
    /\ UNCHANGED fault

RevertRemoveFail ==
    /\ pc = "revert_rm"
    /\ RevertRemoves(fs, symlink) # "nothing"
    /\ revert_err' = "remove:io"
    /\ pc' = "report"
    /\ UNCHANGED <<inner, reverted, fs>>
    /\ fault' = TRUE

\* symlink::symlink_auto(target, symlink)?; Ok(())
RevertSymlink ==
    /\ pc = "revert_ln"
    /\ IF CanSymlink(fs, symlink)
       THEN fs' = Symlink(fs, Abs(target), symlink) /\ UNCHANGED revert_err
       ELSE revert_err' = "symlink" /\ UNCHANGED fs
    /\ pc' = "report"
    /\ UNCHANGED <<inner, reverted>>
    /\ UNCHANGED fault

RevertSymlinkFail ==
    /\ pc = "revert_ln"
    /\ revert_err' = "symlink:io"
    /\ pc' = "report"
    /\ UNCHANGED <<inner, reverted, fs>>
    /\ fault' = TRUE

\* (an or_else that drops the revert's error)
ReportSwallowing ==
    /\ pc = "report"
    /\ Fail(cause, "none")
    /\ UNCHANGED <<input, fs, fsArg, args, i, locals, cause, reverted, revert_err, stdout,
                   unfolded, fault>>

\* main's or_else: Ok(()) => Err(err); Err(revert_err) => Err(err).context(..revert_err)
Report ==
    /\ pc = "report"
    /\ Fail(cause, revert_err)
    /\ UNCHANGED <<input, fs, fsArg, args, i, locals, cause, reverted, revert_err, stdout,
                   unfolded>>
    /\ UNCHANGED fault

Next ==
    \/ Parse \/ NumLayersZero \/ NextArg \/ CwdUnreachable
    \/ Validate \/ ValidateUnreachable \/ FindImmediate \/ FindImmediateFail
    \/ UnfoldFindTarget \/ UnfoldFindTargetFail \/ Dispatch
    \/ RemoveSymlink \/ RemoveSymlinkFail
    \/ SymlinkUnfold \/ SymlinkUnfoldFail
    \/ FileCopy \/ FileCopyFail
    \/ DirCreate \/ DirCreateFail \/ DirList \/ DirListFail \/ DirChild \/ DirChildFail
    \/ Succeed
    \/ RevertExists \/ RevertExistsFail \/ RevertRemove \/ RevertRemoveFail
    \/ RevertSymlink \/ RevertSymlinkFail \/ Report

Spec == Init /\ [][Next]_vars

SpecList == InitList /\ [][Next]_vars

\* The invocations of Spec and those on a link that lies in its own target.
InitDenote == Init \/ InitSelf

SpecDenote == InitDenote /\ [][Next]_vars

\* ------------------------------------------------------------------ try_find_target, on its own

\* The counts try_find_target is called with: small ones and the largest u8.
LayerChoices == (0..MaxLayers) \cup {U8Max}

\* A call try_find_target(symlink, num_layers, false) on any of the chains,
\* the cyclic ones included, from a link of the chain or from the file.
InitFind ==
    /\ \E N \in 1..MaxChain, rel \in BOOLEAN, end \in Ends : fs0 = InitialFs(N, rel, end)
    /\ \E a \in {"f"} \cup {LinkNames[k] : k \in 1..MaxChain} : symlink = <<a>>
    /\ \E n \in LayerChoices :
          args = [symlinks |-> <<>>, num_layers |-> n, follow_to_source |-> FALSE]
    /\ argv = [f |-> FALSE, v |-> FALSE, n |-> <<>>, symlinks |-> <<>>]
    /\ fs = fs0
    /\ fsArg = fs0
    /\ pc = "loop"
    /\ i = 0
    /\ target = symlink
    /\ unfold_target = NoPath
    /\ children = {}
    /\ cause = "none"
    /\ reverted = {}
    /\ revert_err = "none"
    /\ err = NoErr
    /\ status = "running"
    /\ stdout = <<>>
    /\ fault = FALSE
    /\ unfolded = <<>>
    /\ reads = 0
    /\ past = <<>>

\* What the loop leaves alone.
around == <<argv, fs0, fs, fsArg, args, symlink, unfold_target, children, reverted,
            revert_err, err, status, stdout, unfolded, past>>

\* (a loop that goes on while the target is a symlink, whatever the count)
FindTargetStepUnbounded ==
    /\ pc = "loop"
    /\ IsSymlink(fs, target)
    /\ target' = Join(Parent(target), ReadLink(fs, target))
    /\ reads' = reads + 1
    /\ UNCHANGED <<around, pc, i, cause, fault>>

\* for _ in 0..num_layers { if target.is_symlink() { target = parent.join(read_link()?) } .. }
FindTargetStep ==
    /\ pc = "loop"
    /\ i < args.num_layers
    /\ IsSymlink(fs, target)
    /\ target' = Join(Parent(target), ReadLink(fs, target))
    /\ reads' = reads + 1
    /\ i' = i + 1
    /\ UNCHANGED <<around, pc, cause, fault>>

\* target.read_link()? fails: the function returns the error.
FindTargetReadFail ==
    /\ pc = "loop"
    /\ i < args.num_layers
    /\ IsSymlink(fs, target)
    /\ reads' = reads + 1
    /\ cause' = "LinkRead"
    /\ pc' = "return"
    /\ fault' = TRUE
    /\ UNCHANGED <<around, i, target>>

\* else { break }, or the range is exhausted: Ok(target)
FindTargetReturn ==
    /\ pc = "loop"
    /\ i = args.num_layers \/ ~IsSymlink(fs, target)
    /\ pc' = "return"
    /\ UNCHANGED <<around, i, target, cause, reads, fault>>

\* Invocations of one kind of option each, and calls of try_find_target.
InitTerm ==
    \/ Start(Ends, {<<>>, <<0>>}, {FALSE}, MaxArgs) /\ Rest
    \/ InitFind

FindTarget == FindTargetStep \/ FindTargetReadFail \/ FindTargetReturn

NextTerm == Next \/ FindTarget

\* A call of try_find_target is sequential code: once begun it takes its next
\* step until it returns.
SpecTerm == InitTerm /\ [][NextTerm]_vars /\ WF_vars(FindTarget)

\* ------------------------------------------------------------------ invocations in a row

\* The invocations run in a row: enough to unfold the longest chain link by
\* link, to fail once on the way and to be run once more at the end.
MaxRuns == MaxChain + 2

\* `unfold l_N`, with no option, on the head of a chain that ends at the file
\* or at the directory.
InitAgain ==
    /\ \E N \in 1..MaxChain, rel \in BOOLEAN, end \in {"f", "d"} :
          /\ fs0 = InitialFs(N, rel, end)
          /\ argv = [f |-> FALSE, v |-> FALSE, n |-> <<>>, symlinks |-> <<Rel(<<LinkNames[N]>>)>>]
    /\ Rest

\* main has returned and the same command line is run again, on the files as
\* the invocation before left them.
Again ==
    /\ pc = "done"
    /\ Len(past) + 1 < MaxRuns
    /\ past' = Append(past, [start |-> fs0, status |-> status])
    /\ fs0' = fs
    /\ fsArg' = fs
    /\ pc' = "parse"
    /\ args' = NoArgs
    /\ i' = 0
    /\ symlink' = NoPath
    /\ target' = NoPath
    /\ unfold_target' = NoPath
    /\ children' = {}
    /\ cause' = "none"
    /\ reverted' = {}
    /\ revert_err' = "none"
    /\ err' = NoErr
    /\ status' = "running"
    /\ stdout' = <<>>
    /\ fault' = FALSE
    /\ unfolded' = <<>>
    /\ UNCHANGED <<argv, fs, reads>>

NextAgain == Next \/ Again

SpecAgain == InitAgain /\ [][NextAgain]_vars

\* ------------------------------------------------------------------ properties

\* The filesystem the j-th argument was taken up on, given that the arguments
\* before it were unfolded.
Base(j) == IF j = 1 THEN fs0 ELSE unfolded[j - 1].after

\* The successful unfolds so far, each with the filesystem before and after.
Records ==
    {[symlink |-> unfolded[j].symlink, target |-> unfolded[j].target,
      before |-> Base(j), after |-> unfolded[j].after] : j \in 1..Len(unfolded)}

\* The entries a path has beneath it, as the path is seen through the links.
Entries(f, p) == {c \in ChildNames : LNode(f, p \o <<c>>).kind # "none"}

\* Where a link at path p points: its value taken from the link's directory.
PointsTo(f, p) == Join(Parent(p), LNode(f, p).val)

\* Every path the program writes has a slot in the model.
SlotsSuffice ==
    /\ pc \in {"s_unlink", "f_unlink", "d_unlink", "s_link", "f_copy", "d_mkdir", "revert_ln"}
          => Reachable(fs, symlink)
    /\ pc = "d_child" => \A c \in children : Reachable(fs, symlink \o <<c>>)

\* C1: a link argument whose resolved target is a regular file is, after a
\* successful unfold, a regular file (no link) holding the content the target
\* had before the unfold.
C1_FileCopied ==
    \A r \in Records :
        TargetKind(r.before, r.target) = "file"
            => /\ LNode(r.after, r.symlink).kind = "file"
               /\ LNode(r.after, r.symlink).data = SNode(r.before, r.target).data
               /\ SNode(r.after, r.target).data = SNode(r.before, r.target).data

C1_Witness ==
    \E r \in Records :
        /\ TargetKind(r.before, r.target) = "file"
        /\ LNode(r.before, r.symlink).kind = "link"
        /\ LNode(r.after, r.symlink) = File("c2")

\* C2: a link argument whose resolved target is a directory is, after a
\* successful unfold, a real directory whose entries are exactly the names
\* listed in the target directory, each a link whose value is
\* target_directory/name; no entry is a copy or a real subdirectory.
C2_DirOfLinks ==
    \A r \in Records :
        TargetKind(r.before, r.target) = "dir"
            => /\ LNode(r.after, r.symlink).kind = "dir"
               /\ Entries(r.after, r.symlink) = Entries(r.before, r.target)
               /\ \A c \in Entries(r.after, r.symlink) :
                     LNode(r.after, r.symlink \o <<c>>) = Link(Abs(r.target \o <<c>>))

C2_Witness ==
    \E r \in Records :
        /\ TargetKind(r.before, r.target) = "dir"
        /\ LNode(r.before, r.symlink).kind = "link"
        /\ Entries(r.after, r.symlink) = {"x", "y", "z"}
        /\ LNode(r.before, r.target \o <<"z">>).kind = "dir"
        /\ LNode(r.after, r.symlink \o <<"z">>).kind = "link"

\* The failing argument went through try_unfold and the revert ran.
RevertedFailure == status = "fail" /\ err.at \in reverted

\* The errors try_revert returns when one of its primitives fails for a reason
\* outside the model (the others are the answers the filesystem's state forces).
RevertFaults == {"exists:io", "remove:io", "symlink:io"}

\* C3: when a step of the unfold of a validated link fails and no primitive of
\* the revert fails, the argument path is again a symlink pointing to the
\* one-layer target it had, with no partial copy and no partly filled
\* directory left at the path.
C3_Restored ==
    RevertedFailure /\ err.revert \notin RevertFaults
        => /\ LNode(fs, symlink).kind = "link"
           /\ PointsTo(fs, symlink) = PointsTo(fsArg, symlink)
           /\ Entries(fs, symlink) = Entries(fsArg, symlink)
           /\ \A c \in ChildNames : NodeAt(fs, Slot(fs, symlink) \o <<c>>).kind = "none"

C3_Witness ==
    /\ RevertedFailure
    /\ err.orig = "SymlinkChild"
    /\ err.revert = "none"
    /\ Cardinality(children) = 1
    /\ LNode(fs, symlink).kind = "link"

\* The absolute path of the j-th argument.
ArgPath(j) == TryAbsolutePath(args.symlinks[j])

\* The invocation failed on one of its arguments.
ArgFailure == status = "fail" /\ err.at >= 1

\* What a path names in f and in g is the same: the same kind, content,
\* entries, and for a link the same place pointed to.
Alike(f, g, p) ==
    /\ LNode(f, p).kind = LNode(g, p).kind
    /\ LNode(f, p).data = LNode(g, p).data
    /\ LNode(f, p).kind = "link" => PointsTo(f, p) = PointsTo(g, p)

SameAt(f, g, p) == Alike(f, g, p) /\ \A c \in ChildNames : Alike(f, g, p \o <<c>>)

\* f and g differ at most at the node p names in g and beneath it.
SameOutside(f, g, p) ==
    LET slot == Slot(g, p) IN \A r \in Paths : ~IsPrefix(slot, r) => f[r] = g[r]

\* C4 as stated: when argument i is the first to fail, the arguments before it
\* stay as their unfold left them, and argument i and those after it are as
\* they were before the invocation.
C4_AsStated ==
    ArgFailure =>
        /\ \A j \in 1..(err.at - 1) :
              j <= Len(unfolded) /\ SameAt(fs, unfolded[j].after, ArgPath(j))
        /\ \A j \in err.at..Len(args.symlinks) : SameAt(fs, fs0, ArgPath(j))

\* C4, amended: when argument i is the first to fail, the invocation fails and
\* no later argument is taken up; every argument before i was unfolded, each
\* changing nothing outside its own path; if i failed before its transform
\* began the filesystem is exactly what those unfolds left, and otherwise it
\* differs from that only at the path of argument i and beneath it.
C4_FirstFailure ==
    ArgFailure =>
        /\ pc = "done" /\ i = err.at
        /\ Len(unfolded) = err.at - 1
        /\ \A j \in 1..Len(unfolded) :
              /\ unfolded[j].at = j
              /\ unfolded[j].symlink = ArgPath(j)
              /\ LNode(unfolded[j].after, ArgPath(j)) # LNode(Base(j), ArgPath(j))
              /\ SameOutside(unfolded[j].after, Base(j), ArgPath(j))
        /\ err.orig # "Cwd" => fsArg = Base(err.at)
        /\ IF err.at \in reverted
           THEN SameOutside(fs, Base(err.at), ArgPath(err.at))
           ELSE fs = Base(err.at)

\* The middle argument of three is the one that fails: the first stays
\* unfolded, the third is a link that is never taken up.
C4_Witness ==
    /\ ArgFailure
    /\ err.at = 2
    /\ err.orig = "NotASymlink"
    /\ Len(args.symlinks) = 3
    /\ LNode(fs0, ArgPath(1)).kind = "link"
    /\ LNode(fs, ArgPath(1)).kind \in {"file", "dir"}
    /\ ArgPath(3) # ArgPath(1)
    /\ LNode(fs, ArgPath(3)).kind = "link"

\* The number of links from a path to the first node that is no link.
RECURSIVE Hops(_, _, _)
Hops(f, p, fuel) ==
    IF fuel = 0 \/ LNode(f, p).kind # "link" THEN 0 ELSE 1 + Hops(f, PointsTo(f, p), fuel - 1)

ChainLength(f, p) == Hops(f, p, SymloopMax + 1)

\* The node k links along the chain that starts at a path.
RECURSIVE Position(_, _, _)
Position(f, p, k) ==
    IF k = 0 \/ LNode(f, p).kind # "link" THEN p ELSE Position(f, PointsTo(f, p), k - 1)

\* A path heads a chain of links that ends at a file or a directory, and the
\* bound in effect reaches the end of the chain.
BoundCoversChain(f, p) ==
    /\ LNode(f, p).kind = "link"
    /\ SNode(f, p).kind \in {"file", "dir"}
    /\ args.follow_to_source \/ args.num_layers >= ChainLength(f, p)

\* The path of r is a copy of the source of its chain: a file with the source's
\* content, or a directory with one link per entry of the source directory,
\* each naming that entry.
ConcreteCopy(r) ==
    LET source == Stat(r.before, r.symlink).path IN
    IF NodeAt(r.before, source).kind = "file"
    THEN LNode(r.after, r.symlink) = File(NodeAt(r.before, source).data)
    ELSE /\ LNode(r.after, r.symlink).kind = "dir"
         /\ Entries(r.after, r.symlink) = Entries(r.before, source)
         /\ \A c \in Entries(r.after, r.symlink) :
               /\ LNode(r.after, r.symlink \o <<c>>).kind = "link"
               /\ Slot(r.after, PointsTo(r.after, r.symlink \o <<c>>)) = source \o <<c>>

\* C5: the head of a chain of N links ending at a file or a directory, unfolded
\* with Layers(k), k >= N, or in ToSource mode, becomes a concrete copy of the
\* source; unless a primitive fails the unfold succeeds; this holds for each
\* argument on its own.
C5_ChainToSource ==
    /\ \A r \in Records : BoundCoversChain(r.before, r.symlink) => ConcreteCopy(r)
    /\ ArgFailure /\ ~fault /\ Len(unfolded) = err.at - 1
          => ~BoundCoversChain(Base(err.at), ArgPath(err.at))

\* A chain of three links is unfolded to its file under a bound beyond it.
C5_Witness ==
    \E r \in Records :
        /\ ChainLength(r.before, r.symlink) = 3
        /\ ~args.follow_to_source
        /\ args.num_layers >= 3
        /\ LNode(r.after, r.symlink) = File("c1")

\* The unfolds C6 is about: Layers(k), 0 < k < N, on the head of a chain of N
\* links that ends at a regular file.
ShortOfSource(r) ==
    /\ ~args.follow_to_source
    /\ args.num_layers > 0
    /\ args.num_layers < ChainLength(r.before, r.symlink)
    /\ SNode(r.before, r.symlink).kind = "file"

\* C6 as stated: the head stays a link, and its value is the chain position
\* k steps from the head.
C6_AsStated ==
    \A r \in Records :
        ShortOfSource(r)
            => /\ LNode(r.after, r.symlink).kind = "link"
               /\ PointsTo(r.after, r.symlink) = Position(r.before, r.symlink, args.num_layers)

\* C6, amended: the head stays a link, and its value is the chain position
\* k + 1 steps from the head (the one-layer target of the node k steps away).
C6_OneStepFurther ==
    \A r \in Records :
        ShortOfSource(r)
            => /\ LNode(r.after, r.symlink).kind = "link"
               /\ LNode(r.after, r.symlink).val
                     = Abs(Position(r.before, r.symlink, args.num_layers + 1))

C6_Witness ==
    \E r \in Records :
        /\ ShortOfSource(r)
        /\ args.num_layers = 2
        /\ ChainLength(r.before, r.symlink) = 3
        /\ LNode(r.after, r.symlink) = Link(Abs(<<"f">>))

\* C7: with NUM = 0 an accepted invocation changes nothing in the filesystem,
\* takes up no argument and ends with success, whatever the arguments name.
C7_ZeroLayers ==
    ArgvValid /\ argv.n = <<0>>
        => /\ fs = fs0
           /\ i = 0
           /\ reverted = {}
           /\ unfolded = <<>>
           /\ status # "fail"
           /\ pc = "done" => status = "ok"

C7_Witness ==
    /\ pc = "done"
    /\ argv.n = <<0>>
    /\ status = "ok"
    /\ \E j \in 1..Len(args.symlinks) : ~IsSymlink(fs, ArgPath(j))
    /\ \E j \in 1..Len(args.symlinks) : IsSymlink(fs, ArgPath(j))

ValidationErrors == {"NotASymlink", "BrokenSymlink", "Unreachable"}

\* A path is a symlink whose chain ends at an existing node.
ValidLink(f, p) == LNode(f, p).kind = "link" /\ SNode(f, p).kind # "none"

\* C8: validation comes before any mutation for the argument: an argument that
\* is no symlink or a broken one fails the invocation with the filesystem as
\* it was when the argument was taken up and without a revert attempt, and
\* nothing past the validation runs for it.
C8_ValidatedFirst ==
    /\ pc \in {"validate", "immediate"} => fs = fsArg
    /\ pc \notin {"parse", "main", "next", "validate", "done"} => ValidLink(fsArg, symlink)
    /\ \A r \in Records : ValidLink(r.before, r.symlink)
    /\ ArgFailure /\ Len(unfolded) = err.at - 1 /\ ~ValidLink(Base(err.at), ArgPath(err.at))
          => /\ err.orig \in ValidationErrors \cup {"Cwd"}
             /\ fs = Base(err.at)
    /\ ArgFailure /\ err.orig \in ValidationErrors
          => /\ fs = fsArg
             /\ err.at \notin reverted
             /\ err.revert = "none"

C8_Witness ==
    /\ ArgFailure
    /\ err.orig = "BrokenSymlink"
    /\ LNode(fs, symlink).kind = "link"
    /\ fs = fs0
    /\ reverted = {}

\* C9: a link reverted after its transform had started stores exactly the
\* value it stored before, relative or absolute.
C9_ExactValue ==
    RevertedFailure /\ err.revert = "none"
        => /\ LNode(fs, symlink).kind = "link"
           /\ LNode(fs, symlink).val = LNode(fsArg, symlink).val

\* C10: when the unfold fails and the revert fails too the reported error
\* carries both errors; when the revert succeeds it is the unfold's error as
\* it was; the invocation fails in both cases.
C10_BothErrors ==
    /\ pc = "done" /\ reverted # {}
          => /\ status = "fail"
             /\ err.at \in reverted
             /\ err.orig = cause /\ err.orig # "none"
             /\ err.revert = revert_err
    /\ pc = "report" => cause # "none"
    /\ pc \in {"revert", "revert_rm", "revert_ln"} => revert_err = "none"

C10_Witness ==
    /\ pc = "done"
    /\ err.orig = "CopyFile"
    /\ err.revert = "symlink:io"
    /\ LNode(fs, symlink).kind = "none"

\* The success records printed so far, in the order printed.
SuccessLine(l) == l[1] = "Successfully unfolded"
SuccessRecords == SelectSeq(stdout, SuccessLine)

ValidButVerbose ==
    /\ Len(argv.symlinks) >= 1
    /\ ~(argv.f /\ argv.n # <<>>)
    /\ argv.n # <<>> => argv.n[1] \in 0..U8Max

\* C12: a successful unfold writes nothing to standard output unless -v is
\* given; with -v the invocation is accepted, and when it succeeds standard
\* output names the target of every link unfolded.
C12_QuietUnlessVerbose ==
    /\ ~argv.v => SuccessRecords = <<>>
    /\ argv.v /\ ValidButVerbose => err.orig # "Usage"
    /\ argv.v => Len(SuccessRecords) = Len(unfolded)

\* -f together with -n, or a NUM that is no u8.
InvalidOptions ==
    \/ argv.f /\ argv.n # <<>>
    \/ argv.n # <<>> /\ argv.n[1] \notin 0..U8Max

\* C13: an invocation with -f together with an explicit -n, or with a NUM
\* outside 0..255, fails at the parse, whatever its arguments are: no argument
\* is taken up, nothing is printed and the filesystem is never changed.
C13_RejectedFirst ==
    InvalidOptions
        => /\ pc \in {"parse", "done"}
           /\ pc = "done" => status = "fail" /\ err = [orig |-> "Usage", revert |-> "none", at |-> 0]
           /\ status # "ok"
           /\ fs = fs0
           /\ i = 0 /\ unfolded = <<>> /\ reverted = {} /\ stdout = <<>>

\* -f with -n 2 on a link that an accepted invocation would unfold.
C13_Witness ==
    /\ pc = "done"
    /\ argv.f /\ argv.n = <<2>> /\ ~argv.v
    /\ Len(argv.symlinks) = 1
    /\ ValidLink(fs, TryAbsolutePath(argv.symlinks[1]))
    /\ SNode(fs, TryAbsolutePath(argv.symlinks[1])).kind = "file"
    /\ status = "fail"

\* The arguments are [D, D/x], D heads a chain that the bound in effect
\* follows to a directory holding the file x.
ParentThenChild ==
    /\ Len(args.symlinks) = 2
    /\ ArgPath(2) = ArgPath(1) \o <<"x">>
    /\ BoundCoversChain(fs0, ArgPath(1))
    /\ SNode(fs0, ArgPath(1)).kind = "dir"
    /\ SNode(fs0, ArgPath(2)).kind = "file"

\* C14: the arguments are taken up one at a time in the order given, and each
\* is validated and resolved on the filesystem the arguments before it left:
\* with the arguments [D, D/x], D/x is a link only once D is unfolded, is valid
\* then and is unfolded by the same invocation, which (no primitive failing)
\* succeeds and leaves D a directory, D/x a copy of the file x and the other
\* entries of D links.
C14_InOrderOnCurrentState ==
    /\ i >= 1 => Len(unfolded) = i - 1
    /\ \A j \in 1..Len(unfolded) :
          /\ unfolded[j].at = j
          /\ unfolded[j].symlink = ArgPath(j)
          /\ ValidLink(Base(j), ArgPath(j))
          /\ unfolded[j].target
                = TryFindTarget(Base(j), ArgPath(j), args.num_layers, args.follow_to_source).path
    /\ pc \in {"validate", "immediate", "find", "dispatch"}
          => fs = fsArg /\ fsArg = Base(i) /\ symlink = ArgPath(i)
    /\ ParentThenChild /\ pc = "done" /\ ~fault
          => /\ status = "ok"
             /\ LNode(fs, ArgPath(1)).kind = "dir"
             /\ LNode(fs, ArgPath(2)) = File(SNode(fs0, ArgPath(2)).data)
             /\ Entries(fs, ArgPath(1)) = Entries(fs0, ArgPath(1))
             /\ \A c \in Entries(fs, ArgPath(1)) \ {"x"} :
                   LNode(fs, ArgPath(1) \o <<c>>)
                      = Link(Abs(Stat(fs0, ArgPath(1)).path \o <<c>>))

\* [D, D/x] ran to its end: D/x was no link when the invocation started.
C14_Witness ==
    /\ ParentThenChild
    /\ pc = "done" /\ status = "ok"
    /\ ~IsSymlink(fs0, ArgPath(2))
    /\ LNode(fs, ArgPath(2)) = File("c2")
    /\ LNode(fs, ArgPath(1) \o <<"y">>).kind = "link"
    /\ LNode(fs, ArgPath(1) \o <<"z">>).kind = "link"

\* C15: when the node the argument resolves to under the bound in effect is
\* itself a symlink, a successful unfold leaves the argument a symlink whose
\* value is the one-layer resolution of that node (its value taken from its
\* directory, not the source of the chain), every other node, the other links
\* of the chain included, is as before, and with Layers(k) the new value is
\* the node k + 1 links from the argument.
C15_ShallowCopy ==
    \A r \in Records :
        TargetKind(r.before, r.target) = "symlink"
            => /\ ~args.follow_to_source
               /\ r.target = Position(r.before, r.symlink, args.num_layers)
               /\ LNode(r.after, r.symlink) = Link(Abs(PointsTo(r.before, r.target)))
               /\ LNode(r.after, r.symlink).val
                     = Abs(Position(r.before, r.symlink, args.num_layers + 1))
               /\ SameOutside(r.after, r.before, r.symlink)

\* l3 -> l2 -> l1 -> f unfolded at l3 by default (k = 1): l3 -> l1, and l2 and
\* l1 are the links they were.
C15_Witness ==
    \E r \in Records :
        /\ TargetKind(r.before, r.target) = "symlink"
        /\ args.num_layers = 1
        /\ r.symlink = <<"l3">>
        /\ SNode(r.before, r.symlink).kind = "file"
        /\ LNode(r.after, r.symlink) = Link(Abs(<<"l1">>))
        /\ LNode(r.after, <<"l2">>) = Link(Rel(<<"l1">>))
        /\ LNode(r.after, <<"l1">>) = Link(Rel(<<"f">>))

\* The argument path is a symlink that points where it pointed when the
\* argument was taken up.
LinkIntact ==
    /\ LNode(fs, symlink).kind = "link"
    /\ PointsTo(fs, symlink) = PointsTo(fsArg, symlink)

\* C16: for every validated argument whose unfold fails, the error is reported
\* without the "Could not revert" wrapper if and only if the argument path is,
\* when the error is reported, a symlink pointing to its original one-layer
\* target; a failure before the link was removed is never reported as a failed
\* revert while the link is intact.
C16_WrapperIffNotClean ==
    /\ RevertedFailure => (err.revert = "none" <=> LinkIntact)
    /\ RevertedFailure /\ err.orig \in {"Unfoldable", "Resolve", "Unlink"} /\ LinkIntact
          => err.revert = "none"

\* The phase the invocation is in: those of the current argument, "Start"
\* before the first argument, "Ok" and "Failed" once main has returned without
\* a revert.
Phase ==
    CASE pc \in {"parse", "main"} -> "Start"
      [] pc = "next" -> IF i = 1 THEN "Start" ELSE "Succeeded"
      [] pc = "validate" -> "Validating"
      [] pc = "immediate" -> "ResolvingImmediate"
      [] pc = "find" -> "ResolvingFinal"
      [] pc \in {"revert", "revert_rm", "revert_ln"} -> "Reverting"
      [] pc = "report" -> IF revert_err = "none" THEN "Reverted" ELSE "RevertFailed"
      [] pc = "done" ->
            IF status = "ok" THEN "Ok"
            ELSE IF err.at \notin reverted THEN "Failed"
            ELSE IF err.revert = "none" THEN "Reverted" ELSE "RevertFailed"
      [] OTHER -> "Transforming"

\* The phase changes both statements allow.
CommonOrder ==
    {<<"Start", "Validating">>, <<"Start", "Ok">>, <<"Start", "Failed">>,
     <<"Validating", "ResolvingImmediate">>, <<"Validating", "Failed">>,
     <<"ResolvingImmediate", "ResolvingFinal">>, <<"ResolvingImmediate", "Failed">>,
     <<"ResolvingFinal", "Transforming">>,
     <<"Transforming", "Succeeded">>, <<"Transforming", "Reverting">>,
     <<"Succeeded", "Validating">>, <<"Succeeded", "Ok">>, <<"Succeeded", "Failed">>,
     <<"Reverting", "Reverted">>, <<"Reverting", "RevertFailed">>}

\* A step keeps the phase or changes it as `order` allows.
PhaseStep(order) == Phase' = Phase \/ <<Phase, Phase'>> \in order

\* C17 as stated: the phases come in the order Validated, Resolving (immediate
\* target, then final target), Transforming, then Succeeded or Reverting and
\* Reverted or RevertFailed; the revert is entered only from Transforming, a
\* failed resolution ends the argument without it.
C17_AsStated == [][PhaseStep(CommonOrder \cup {<<"ResolvingFinal", "Failed">>})]_vars

\* C17, amended: the same order, but a failure of the final resolution, which
\* is a step of try_unfold, is followed by the revert as a failure of the
\* transform is; a failed validation and a failed immediate resolution are
\* not.  The revert runs at most once for an argument, and nothing follows it.
C17_PhaseOrder == [][PhaseStep(CommonOrder \cup {<<"ResolvingFinal", "Reverting">>})]_vars

\* The first argument went through its phases to Succeeded; the final
\* resolution of the second failed, the revert ran and put the link back.
C17_Witness ==
    /\ pc = "done"
    /\ Phase = "Reverted"
    /\ Len(unfolded) = 1
    /\ err = [orig |-> "Resolve", revert |-> "none", at |-> 2]
    /\ LinkIntact

\* The target the current argument resolves to under the bound in effect, on
\* the filesystem the argument was taken up on.
ResolvedTarget == TryFindTarget(fsArg, symlink, args.num_layers, args.follow_to_source)

\* The current argument is a valid link whose resolved target is no symlink,
\* no regular file and no directory, and its resolution did not fail.
TargetUnfoldable ==
    /\ pc \notin {"parse", "main", "next", "validate", "immediate", "find"}
    /\ i \in 1..Len(args.symlinks)
    /\ cause # "Resolve"
    /\ err.orig \notin ValidationErrors \cup {"Cwd", "LinkRead", "Resolve"}
    /\ ResolvedTarget.st = "ok"
    /\ TargetKind(fsArg, ResolvedTarget.path) = "other"

\* C18: when the resolved target of a validated argument is neither a
\* symlink, a regular file nor a directory, the unfold fails with the
\* unfoldable-target error before anything is removed, and through the revert
\* attempt and after the invocation the argument path is the symlink it was,
\* with the value it had.
C18_Untouched ==
    TargetUnfoldable
        => /\ pc \in {"dispatch", "revert", "revert_rm", "revert_ln", "report", "done"}
           /\ pc # "dispatch" => cause = "Unfoldable"
           /\ pc = "done" => status = "fail" /\ err.orig = "Unfoldable" /\ err.at = i
           /\ fs = fsArg
           /\ LNode(fs, symlink) = LNode(fsArg, symlink)
           /\ LNode(fs, symlink).kind = "link"

\* A chain of two relative links ends at the special node; the invocation is
\* over, the revert attempt included.
C18_Witness ==
    /\ TargetUnfoldable
    /\ pc = "done"
    /\ err.at \in reverted
    /\ symlink = <<"l2">>
    /\ SNode(fs, symlink) = Special
    /\ LNode(fs, symlink) = Link(Rel(<<"l1">>))

\* More steps than one argument takes from its validation to its success.
ArgSteps == 20

\* The steps one argument, or the revert, has left at most.
StepsLeft ==
    CASE pc = "done" -> 0
      [] pc = "report" -> 1
      [] pc = "revert_ln" -> 2
      [] pc = "revert_rm" -> 3
      [] pc = "revert" -> 4
      [] pc = "print" -> 5
      [] pc = "d_child" -> 5 + Cardinality(children)
      [] pc = "d_list" -> 9
      [] pc \in {"s_link", "f_copy", "d_mkdir"} -> 10
      [] pc \in {"s_unlink", "f_unlink", "d_unlink"} -> 11
      [] pc = "dispatch" -> 12
      [] pc = "find" -> 13
      [] pc = "immediate" -> 14
      [] pc = "validate" -> 15
      [] pc = "next" -> 16
      [] pc = "main" -> 17
      [] OTHER -> 18

\* A bound on the steps left: for a call of try_find_target the turns of the
\* loop left and the return, for an invocation the steps of the current
\* argument and of the arguments after it.
Rank ==
    IF pc \in {"done", "return"} THEN 0
    ELSE IF pc = "loop" THEN 1 + args.num_layers - i
    ELSE (Len(argv.symlinks) + 1 - i) * ArgSteps + StepsLeft

\* C19: try_find_target with a count n reads at most n links, on cyclic and
\* self-referencing chains too, stops at the first node that is no link, and
\* returns; every step of an invocation and of the loop lowers a bound that is
\* a natural number and is 0 only when main (the function) has returned, so an
\* invocation over its finite argument list ends, with success or failure.
C19_Terminates ==
    /\ [](pc \in {"loop", "return"}
            => /\ reads <= args.num_layers
               /\ ~fault => reads = i
               /\ ~fault => target = FollowLayers(fs, symlink, reads)
               /\ reads > 0 => IsSymlink(fs, FollowLayers(fs, symlink, reads - 1)))
    /\ [](pc = "return" /\ ~fault
            => /\ reads = args.num_layers \/ ~IsSymlink(fs, target)
               /\ target = FollowLayers(fs, symlink, args.num_layers))
    /\ [][Rank' < Rank]_vars
    /\ [](Rank \in Nat /\ (Rank = 0 <=> pc \in {"done", "return"}))
    /\ [](pc = "done" <=> status \in {"ok", "fail"})
    /\ (pc = "loop") ~> (pc = "return")

\* The loop ran its 255 turns round a cycle of two links and returned.
C19_Witness ==
    /\ pc = "return"
    /\ ~fault
    /\ args.num_layers = U8Max
    /\ reads = U8Max
    /\ IsSymlink(fs, target)
    /\ target # symlink
    /\ FollowLayers(fs, target, 2) = target

\* The nodes of the chain that starts at path p in f, past p itself: every
\* link after p and the node the chain ends at.
ChainNodes(f, p) == {Slot(f, Position(f, p, k)) : k \in 1..(MaxChain + 2)} \ {Slot(f, p)}

\* The chain of p, and what lies beneath its nodes, is in g what it is in f.
ChainKept(f, g, p) ==
    \A q \in ChainNodes(f, p) :
        /\ NodeAt(g, q) = NodeAt(f, q)
        /\ \A c \in ChildNames : NodeAt(g, q \o <<c>>) = NodeAt(f, q \o <<c>>)

\* C20: no step of an unfold or of a revert removes or changes a node other
\* than the argument path and what is beneath it: at every step the
\* filesystem is, outside the argument path, the one the argument was taken
\* up on, and after the unfold and after the revert the file or directory the
\* argument resolves to, the entries of that directory and the links of the
\* chain between are as they were, also when the revert runs on an argument
\* that is still a symlink to a directory.
C20_Frame ==
    /\ pc \in {"parse", "main"} => fs = fs0
    /\ pc = "next"
          => /\ fs = Base(i)
             /\ i > 1 => /\ SameOutside(fs, Base(i - 1), ArgPath(i - 1))
                         /\ ChainKept(Base(i - 1), fs, ArgPath(i - 1))
    /\ pc \notin {"parse", "main", "next", "done", "loop", "return"}
          => fs = fsArg \/ SameOutside(fs, fsArg, symlink)
    /\ pc = "report" => fs = fsArg \/ ChainKept(fsArg, fs, symlink)
    /\ ArgFailure /\ err.orig # "Cwd" => fs = fsArg \/ SameOutside(fs, fsArg, symlink)

\* The removal of a link to the directory failed, the revert removed the link
\* (by the recursive removal) and put it back: the directory has its entries.
C20_Witness ==
    /\ RevertedFailure
    /\ err.orig = "Unlink"
    /\ err.revert = "none"
    /\ symlink = <<"l2">>
    /\ RevertRemoves(fsArg, symlink) = "dir"
    /\ LNode(fs, symlink).kind = "link"
    /\ Entries(fs, <<"d">>) = {"x", "y", "z"}
    /\ NodeAt(fs, <<"d", "x">>) = File("c2")
    /\ NodeAt(fs, <<"l1">>) = NodeAt(fs0, <<"l1">>)

\* Where a path leads when every link is followed, and the node found there.
Resolves(f, p) == <<Stat(f, p), SNode(f, p)>>

\* What reading through a path yields: the content of the file it leads to,
\* or the names listed in the directory it leads to, each with the node the
\* name resolves to.
Denotes(f, p) ==
    LET n == SNode(f, p) IN
    CASE n.kind = "file" -> <<"file", n.data>>
      [] n.kind = "dir" -> <<"dir", {<<c, Resolves(f, p \o <<c>>)>> : c \in ReadDir(f, p)}>>
      [] OTHER -> <<n.kind>>

\* The link at p is an entry of the directory it leads to.
SelfContained(f, p) == IsDir(f, p) /\ Stat(f, p).path = Parent(Slot(f, p))

\* C21 as stated: after a successful unfold, under any bound, reading through
\* the argument path yields what reading through the link yielded before: the
\* same file content, or the same entry names each resolving to the same
\* node, whatever the values and the directories of the links of the chain.
C21_AsStated ==
    pc = "next" /\ i > 1 => Denotes(fs, ArgPath(i - 1)) = Denotes(Base(i - 1), ArgPath(i - 1))

\* C21: after a successful unfold, under any bound, reading through the
\* argument path yields what reading through the link yielded before, with
\* one exception: when the link was an entry of the directory it led to, the
\* new directory lists the same names and every name but the argument's own
\* resolves as before, while the argument's own name now resolves to the new
\* directory and no longer to the directory the link led to.
C21_Denotation ==
    pc = "next" /\ i > 1
        => LET p == ArgPath(i - 1)
               before == Base(i - 1)
               own == p[Len(p)]
           IN  IF ~SelfContained(before, p)
               THEN Denotes(fs, p) = Denotes(before, p)
               ELSE /\ LNode(fs, p).kind = "dir"
                    /\ ReadDir(fs, p) = ReadDir(before, p)
                    /\ \A c \in ReadDir(fs, p) \ {own} :
                          Resolves(fs, p \o <<c>>) = Resolves(before, p \o <<c>>)
                    /\ Stat(fs, p \o <<own>>) = Found(Slot(fs, p))
                    /\ Stat(before, p \o <<own>>) = Stat(before, p)
                    /\ Stat(before, p) # Found(Slot(fs, p))

\* A chain through two directories with relative values: l2 -> l1 -> d/y and
\* d/y -> x, unfolded two layers deep, leaves l2 a link that reads as d/x.
C21_Witness ==
    /\ pc = "next"
    /\ i = 2
    /\ ArgPath(1) = <<"l2">>
    /\ args.num_layers = 2
    /\ NodeAt(fs0, <<"l2">>) = Link(Rel(<<"l1">>))
    /\ NodeAt(fs0, <<"l1">>) = Link(Rel(<<"d", "y">>))
    /\ NodeAt(fs0, <<"d", "y">>) = Link(Rel(<<"x">>))
    /\ NodeAt(fs, <<"l2">>) = Link(Abs(<<"d", "x">>))
    /\ Denotes(fs, <<"l2">>) = <<"file", "c2">>
    /\ Denotes(fs0, <<"l2">>) = <<"file", "c2">>

\* The links read from path p on until a node that is no link is met.
RECURSIVE LinksFrom(_, _, _)
LinksFrom(f, p, fuel) ==
    IF fuel = 0 \/ ~IsSymlink(f, p) THEN 0 ELSE 1 + LinksFrom(f, PointsTo(f, p), fuel - 1)

LinksToEnd(f, p) == LinksFrom(f, p, MaxChain + 1)

\* The argument of the invocations run in a row, the files the first of them
\* started on, and how many of them succeeded, the current one included.
ChainHead == TryAbsolutePath(argv.symlinks[1])
Origin == IF past = <<>> THEN fs0 ELSE past[1].start
Successes ==
    Cardinality({j \in 1..Len(past) : past[j].status = "ok"}) + (IF status = "ok" THEN 1 ELSE 0)

\* What the head is once the chain is used up: the copy of the file, or a
\* directory in place of the link to the directory.
Unfolded(n) ==
    IF SNode(Origin, ChainHead).kind = "file" THEN n = File(SNode(Origin, ChainHead).data)
    ELSE n.kind = "dir"

\* C22: invocations with no option, run in a row on the head of a chain of N
\* links that ends at a regular file, converge: a successful invocation leaves
\* the head one link nearer to the file (its new value is where the second
\* link pointed) and changes nothing else; between invocations a head that is
\* still a link is N - k links from the file after k successes; the head is
\* the regular file with the source's content after exactly N successes, and
\* an invocation on a head that is no link fails as not-a-symlink and changes
\* nothing.
C22_Converges ==
    LET N == LinksToEnd(Origin, ChainHead)
        k == Successes
    IN  /\ k <= N
        /\ pc = "done" /\ status = "ok"
              => LET L == LinksToEnd(fs0, ChainHead) IN
                 /\ L >= 1
                 /\ \A r \in Paths : ~IsPrefix(ChainHead, r) => fs[r] = fs0[r]
                 /\ IF L > 1
                    THEN /\ LNode(fs, ChainHead) = Link(Abs(FollowLayers(fs0, ChainHead, 2)))
                         /\ LinksToEnd(fs, ChainHead) = L - 1
                         /\ Stat(fs, ChainHead) = Stat(fs0, ChainHead)
                    ELSE Unfolded(LNode(fs, ChainHead))
        /\ pc \in {"parse", "done"}
              => /\ IsSymlink(fs, ChainHead) => LinksToEnd(fs, ChainHead) = N - k
                 /\ k = N => Unfolded(LNode(fs, ChainHead))
                 /\ k < N => LNode(fs, ChainHead) # File(SNode(Origin, ChainHead).data)
        /\ ~IsSymlink(fs0, ChainHead)
              => /\ fs = fs0
                 /\ pc = "done" => status = "fail" /\ (~fault => err.orig = "NotASymlink")

\* Three invocations unfolded l3 -> l2 -> l1 -> f link by link into a copy of
\* f, l2 and l1 are as they were, and the fourth failed as not-a-symlink.
C22_Witness ==
    /\ pc = "done"
    /\ Len(past) = 3
    /\ \A j \in 1..3 : past[j].status = "ok"
    /\ status = "fail"
    /\ err.orig = "NotASymlink"
    /\ fs = fs0
    /\ ChainHead = <<"l3">>
    /\ NodeAt(Origin, <<"l3">>) = Link(Rel(<<"l2">>))
    /\ LinksToEnd(Origin, ChainHead) = 3
    /\ LinksToEnd(past[2].start, ChainHead) = 2
    /\ LinksToEnd(past[3].start, ChainHead) = 1
    /\ NodeAt(fs, <<"l3">>) = File("c1")
    /\ NodeAt(fs, <<"l2">>) = Link(Rel(<<"l1">>))
    /\ NodeAt(fs, <<"l1">>) = Link(Rel(<<"f">>))

====
